---- MODULE Spec2Model ----
(***************************************************************************)
(* State-machine model of src/src/scan_manager.rs (feroxbuster): the scan  *)
(* registry FeroxScans, the response registry FeroxResponses, the pause    *)
(* protocol FeroxScans::pause, the ctrl+c state writer and resume_scan.    *)
(***************************************************************************)
EXTENDS Integers, Sequences, FiniteSets, TLC

\* ------------------------------------------------------------------ bounds
\* concurrent worker tasks (threads of the runtime)
NumWorkers == 2
\* FeroxScan objects that can be allocated in one run
NumHandles == 2
\* responses recorded in one run
MaxResponses == 2

Workers == 1..NumWorkers
Handles == 1..NumHandles
Urls == {"u1", "u2"}
ScanTypes == {"File", "Directory"}

\* lock holder ids: Free, a worker, or the ctrl+c handler thread
Free == 0
Sig == NumWorkers + 1

VARIABLES
    \* ---- FeroxScans / FeroxScan (shared)
    rec,            \* heap of FeroxScan objects behind Arc<Mutex<..>>
    bars,           \* heap of indicatif ProgressBar states; a clone shares it
    scans,          \* FeroxScans.scans: Vec<Arc<Mutex<FeroxScan>>>
    scansLock,      \* holder of the Mutex around the Vec
    recLock,        \* holder of each FeroxScan's Mutex
    scansPoisoned,  \* the Vec's Mutex is poisoned
    recPoisoned,    \* set of FeroxScan handles whose Mutex is poisoned
    \* ---- per worker: position and locals of the call in progress
    pc, op, arg, url, idx, sentry, res, out, pre,
    \* ---- FeroxResponses (RESPONSES) and the running Configuration
    responses,      \* FeroxResponses.responses: Vec<FeroxResponse>
    respPoisoned,   \* the RwLock around it is poisoned
    config,         \* CONFIGURATION
    \* ---- ctrl+c handler thread and the state file
    hpc, hidx, hdoc, file, exitCode,
    \* ---- resume_scan
    rpc, ridx, rconfig, captured,
    \* ---- pause: PAUSE_SCAN, INTERACTIVE_BARRIER, SINGLE_SPINNER
    paused,         \* PAUSE_SCAN
    barrier,        \* INTERACTIVE_BARRIER
    spinner,        \* SINGLE_SPINNER
    gui,            \* pause's get_user_input, per caller
    leaders,        \* callers whose pause call took the `barrier == 0` branch
    waited,         \* the caller's poll has found PAUSE_SCAN true
    sawClear,       \* the caller's poll has found PAUSE_SCAN false
    clearSince,     \* PAUSE_SCAN has been false since the caller entered pause
    \* ---- how the callers are scheduled
    serial,         \* TRUE: calls take turns, no call starts during another
    \* ---- history
    seen            \* what the registries held at each moment of a capture

regVars == <<rec, scans, scansLock, recLock, scansPoisoned, recPoisoned>>
wVars == <<pc, op, arg, url, idx, sentry, res, out, pre>>
respVars == <<responses, respPoisoned, config>>
sigVars == <<hpc, hidx, hdoc, file, exitCode>>
resVars == <<rpc, ridx, rconfig, captured>>
pauseVars == <<paused, barrier, spinner, gui, leaders, waited, sawClear, clearSince>>
schedVars == <<serial>>
barVars == <<bars>>
viewVars == <<seen>>
vars == <<regVars, wVars, respVars, sigVars, resVars, pauseVars, schedVars, barVars, viewVars>>
\* what the registry calls of a worker never touch
envVars == <<respVars, sigVars, resVars, pauseVars, schedVars, barVars, viewVars>>

\* ------------------------------------------------------------ FeroxScan
\* Option::None in the fields progress_bar and task
NoBar == 0
\* FeroxScan::default(): a new id, empty url, type File, not complete, no
\* task, no progress bar.  alloc marks the heap cells in use; a cell's number
\* stands for the UUID drawn for it.
DefaultScan ==
    [alloc |-> FALSE, id |-> 0, url |-> "", scan_type |-> "File",
     complete |-> FALSE, task |-> "none", progress_bar |-> NoBar]

\* FeroxScan::new(url, scan_type, pb) for the heap cell h
NewScan(h, u, t, pb) ==
    [DefaultScan EXCEPT !.alloc = TRUE, !.id = h, !.url = u, !.scan_type = t,
                        !.progress_bar = pb]

Allocated == {h \in Handles : rec[h].alloc}
\* the Arc returned by the next FeroxScan::new: the first unused heap cell
NextHandle == CHOOSE h \in Handles \ Allocated : \A g \in Handles \ Allocated : h <= g

\* ------------------------------------- FeroxResponse and Configuration
\* Both types live outside this file; the core reads only a response's url.
StatusCodes == {200, 301}
Responses == [url : Urls, status : StatusCodes]
Configs == [add_slash : BOOLEAN, depth : 1..2]
DefaultConfig == [add_slash |-> FALSE, depth |-> 1]

\* ------------------------------------------------- serde_json::Value
\* A JSON value: its kind, the text of a scalar, the members of an object
\* (a function from keys to values) and the elements of an array.
JScalar(k, text) == [kind |-> k, lit |-> text, fields |-> <<>>, items |-> <<>>]
JNull == JScalar("null", "null")
JStr(text) == JScalar("string", text)
JNum(n) == JScalar("number", ToString(n))
JBool(b) == JScalar("bool", IF b THEN "true" ELSE "false")
JObj(f) == [kind |-> "object", lit |-> "", fields |-> f, items |-> <<>>]
JArr(seq) == [kind |-> "array", lit |-> "", fields |-> <<>>, items |-> seq]
\* what File::open / from_reader meet when there is no JSON document
NoFile == JScalar("missing", "")
Garbage == JScalar("garbage", "ferox")

HasField(j, k) == j.kind = "object" /\ k \in DOMAIN j.fields

\* impl Serialize for FeroxScan: id, url, scan_type, complete
RecordJson(r) ==
    JObj([id |-> JStr(ToString(r.id)), url |-> JStr(r.url),
          scan_type |-> JStr(r.scan_type), complete |-> JBool(r.complete)])
ScanJson(h) == RecordJson(rec[h])

\* FeroxResponse's Serialize and Deserialize
EncodeResponse(r) ==
    JObj([type |-> JStr("response"), url |-> JStr(r.url), status |-> JNum(r.status)])
ResponseDecodes(j) ==
    /\ HasField(j, "url") /\ HasField(j, "status")
    /\ j.fields.url.kind = "string" /\ j.fields.url.lit \in Urls
    /\ j.fields.status.kind = "number"
    /\ \E n \in StatusCodes : ToString(n) = j.fields.status.lit
DecodeResponse(j) ==
    [url |-> j.fields.url.lit,
     status |-> CHOOSE n \in StatusCodes : ToString(n) = j.fields.status.lit]

\* Configuration's derived Serialize and Deserialize
EncodeConfig(c) ==
    JObj([add_slash |-> JBool(c.add_slash), depth |-> JNum(c.depth)])
ConfigDecodes(j) ==
    /\ HasField(j, "add_slash") /\ HasField(j, "depth")
    /\ j.fields.add_slash.kind = "bool"
    /\ j.fields.depth.kind = "number"
    /\ \E n \in 1..2 : ToString(n) = j.fields.depth.lit
DecodeConfig(j) ==
    [add_slash |-> j.fields.add_slash.lit = "true",
     depth |-> CHOOSE n \in 1..2 : ToString(n) = j.fields.depth.lit]

\* ---------------------------------------------------------------- ghosts
\* what the caller could see when the call started
NoPre ==
    [scans |-> <<>>, sp |-> FALSE, rp |-> FALSE, rps |-> {}, resp |-> <<>>,
     rsp |-> FALSE, rec |-> <<>>, bars |-> <<>>]
Snapshot(h) ==
    [scans |-> scans, sp |-> scansPoisoned, rp |-> h \in recPoisoned,
     rps |-> recPoisoned, resp |-> responses, rsp |-> respPoisoned,
     rec |-> <<>>, bars |-> <<>>]
\* the same with the heap of records and of progress bars
SnapshotAll(h) == [Snapshot(h) EXCEPT !.rec = rec, !.bars = bars]
\* what the registries held when ctrl+c arrived and when the process ended
NoCapture ==
    [taken |-> FALSE, opened |-> FALSE, scans |-> <<>>, responses |-> <<>>,
     final |-> <<>>, config |-> DefaultConfig, sp |-> FALSE, rsp |-> FALSE]

\* What a serialization of both registries would write of the collection sc
\* over the records rc and of the responses rs, were it done in one instant.
View(sc, rc, rs) ==
    [scans |-> [i \in 1..Len(sc) |-> RecordJson(rc[sc[i]])],
     responses |-> [i \in 1..Len(rs) |-> EncodeResponse(rs[i])]]
\* the history of views is kept (on) or not, and the views of this capture
NoViews == [on |-> FALSE, views |-> {}]
\* the handler is between ctrl+c and the end of its serialization
Capturing == hpc \in {"h_open", "h_scans_lock", "h_scans_iter", "h_responses"}
\* the history after a step that leaves the registries with view v
Observed(v) ==
    IF seen.on /\ Capturing THEN [seen EXCEPT !.views = @ \cup {v}] ELSE seen

NoArg == 0
NoUrl == ""
NoDoc == [scans |-> <<>>, config |-> JNull, responses |-> <<>>]
\* SINGLE_SPINNER starts as get_single_spinner(): neither finished nor ticking
NewSpinner == [finished |-> FALSE, ticking |-> FALSE]

\* the statics and the locals before anything ran: FeroxScans::default(),
\* an empty RESPONSES, no lock held or poisoned, the handler armed
Fresh ==
    /\ rec = [h \in Handles |-> DefaultScan]
    /\ bars = <<>>
    /\ scans = <<>>
    /\ scansLock = Free
    /\ recLock = [h \in Handles |-> Free]
    /\ scansPoisoned = FALSE
    /\ recPoisoned = {}
    /\ op = [w \in Workers |-> "none"]
    /\ arg = [w \in Workers |-> NoArg]
    /\ url = [w \in Workers |-> NoUrl]
    /\ idx = [w \in Workers |-> 0]
    /\ sentry = [w \in Workers |-> FALSE]
    /\ res = [w \in Workers |-> FALSE]
    /\ out = [w \in Workers |-> <<>>]
    /\ pre = [w \in Workers |-> NoPre]
    /\ responses = <<>>
    /\ respPoisoned = FALSE
    /\ hpc = "armed"
    /\ hidx = 0
    /\ hdoc = NoDoc
    /\ exitCode = 0
    /\ ridx = 0
    /\ rconfig = DefaultConfig
    /\ captured = NoCapture
    /\ paused = FALSE
    /\ barrier = 0
    /\ spinner = NewSpinner
    /\ gui = [w \in Workers |-> FALSE]
    /\ leaders = {}
    /\ waited = [w \in Workers |-> FALSE]
    /\ sawClear = [w \in Workers |-> FALSE]
    /\ clearSince = [w \in Workers |-> FALSE]

\* the state right after the process started normally
Init ==
    /\ Fresh
    /\ pc = [w \in Workers |-> "idle"]
    /\ config = DefaultConfig
    /\ file = NoFile
    /\ rpc = "off"
    /\ serial = FALSE
    /\ seen = NoViews

\* ------------------------------------------------------- calls (entry)
\* no other call is in progress (a call that panicked has ended)
Alone(w) == \A v \in Workers \ {w} : pc[v] \in {"idle", "panicked"}
Quiet == \A v \in Workers : pc[v] \in {"idle", "panicked"}
\* worker w may start a call
CanCall(w) ==
    /\ pc[w] = "idle"
    /\ serial => (Alone(w) /\ hpc = "armed")

\* an add_scan whose new record takes the id of the stored scan of its url
IdFor(h, u) ==
    IF \E i \in 1..Len(scans) : rec[scans[i]].url = u
      THEN rec[CHOOSE g \in Handles :
                 \E i \in 1..Len(scans) : scans[i] = g /\ rec[g].url = u].id
      ELSE h
add_scan_same_id(w, u, t) ==
    /\ CanCall(w)
    /\ Handles \ Allocated # {}
    /\ LET h == NextHandle IN
        /\ rec' = [rec EXCEPT ![h] =
                    [NewScan(h, u, t, IF t = "Directory" THEN Len(bars) + 1 ELSE NoBar)
                        EXCEPT !.id = IdFor(h, u)]]
        /\ bars' = IF t = "Directory" THEN Append(bars, "active") ELSE bars
        /\ pc' = [pc EXCEPT ![w] = "ins_lock"]
        /\ op' = [op EXCEPT ![w] = "add_scan"]
        /\ arg' = [arg EXCEPT ![w] = h]
        /\ pre' = [pre EXCEPT ![w] = Snapshot(h)]
    /\ UNCHANGED <<scans, scansLock, recLock, scansPoisoned, recPoisoned>>
    /\ UNCHANGED <<url, idx, sentry, res, out>>
    /\ UNCHANGED <<respVars, sigVars, resVars, pauseVars, schedVars, viewVars>>

\* FeroxScans::add_scan: progress::add_bar for a Directory scan,
\* FeroxScan::new, then self.insert(ferox_scan.clone())
add_scan(w, u, t) ==
    /\ CanCall(w)
    /\ Handles \ Allocated # {}
    /\ LET h == NextHandle IN
        /\ rec' = [rec EXCEPT ![h] =
                    NewScan(h, u, t, IF t = "Directory" THEN Len(bars) + 1 ELSE NoBar)]
        /\ bars' = IF t = "Directory" THEN Append(bars, "active") ELSE bars
        /\ pc' = [pc EXCEPT ![w] = "ins_lock"]
        /\ op' = [op EXCEPT ![w] = "add_scan"]
        /\ arg' = [arg EXCEPT ![w] = h]
        /\ pre' = [pre EXCEPT ![w] = Snapshot(h)]
    /\ UNCHANGED <<scans, scansLock, recLock, scansPoisoned, recPoisoned>>
    /\ UNCHANGED <<url, idx, sentry, res, out>>
    /\ UNCHANGED <<respVars, sigVars, resVars, pauseVars, schedVars, viewVars>>

\* FeroxScans::insert called with a handle the caller already owns
insert(w, h) ==
    /\ CanCall(w)
    /\ h \in Allocated
    /\ pc' = [pc EXCEPT ![w] = "ins_lock"]
    /\ op' = [op EXCEPT ![w] = "insert"]
    /\ arg' = [arg EXCEPT ![w] = h]
    /\ pre' = [pre EXCEPT ![w] = Snapshot(h)]
    /\ UNCHANGED regVars
    /\ UNCHANGED <<url, idx, sentry, res, out>>
    /\ UNCHANGED envVars

\* -------------------------------------------------------------- FeroxScan
\* The methods of one record.  Their callers reach the record through its
\* Mutex (scan.lock().unwrap().finish()), so a call needs the record's lock
\* free and healthy and runs as one step.
CanUse(w, h) ==
    /\ CanCall(w)
    /\ h \in Allocated \ recPoisoned
    /\ recLock[h] = Free

\* what a call on a record leaves alone, apart from rec, bars and its result
ScanFrame(w, name, h) ==
    /\ pc' = [pc EXCEPT ![w] = "done"]
    /\ op' = [op EXCEPT ![w] = name]
    /\ arg' = [arg EXCEPT ![w] = h]
    /\ pre' = [pre EXCEPT ![w] = SnapshotAll(h)]
    /\ UNCHANGED <<scans, scansLock, recLock, scansPoisoned, recPoisoned>>
    /\ UNCHANGED <<url, idx, sentry>>
    /\ UNCHANGED <<respVars, sigVars, resVars, pauseVars, schedVars>>
    /\ seen' = Observed(View(scans, rec', responses))

\* FeroxScan::new(url, scan_type, pb) called directly, as the tests do: pb is
\* None or Some(ProgressBar::new(..))
new(w, u, t, withBar) ==
    /\ CanCall(w)
    /\ Handles \ Allocated # {}
    /\ rec' = [rec EXCEPT ![NextHandle] =
                NewScan(NextHandle, u, t, IF withBar THEN Len(bars) + 1 ELSE NoBar)]
    /\ bars' = IF withBar THEN Append(bars, "active") ELSE bars
    /\ UNCHANGED <<res, out>>
    /\ ScanFrame(w, "new", NextHandle)

\* FeroxScan::stop_progress_bar: pb.finish() when there is a progress bar
StopProgressBar(h) ==
    IF rec[h].progress_bar = NoBar THEN bars
    ELSE [bars EXCEPT ![rec[h].progress_bar] = "finished"]

\* a finish that flips the flag
finish_toggles(w, h) ==
    /\ CanUse(w, h)
    /\ rec' = [rec EXCEPT ![h].complete = ~rec[h].complete]
    /\ bars' = StopProgressBar(h)
    /\ UNCHANGED <<res, out>>
    /\ ScanFrame(w, "finish", h)

\* FeroxScan::finish: complete = true, then stop_progress_bar
finish(w, h) ==
    /\ CanUse(w, h)
    /\ rec' = [rec EXCEPT ![h].complete = TRUE]
    /\ bars' = StopProgressBar(h)
    /\ UNCHANGED <<res, out>>
    /\ ScanFrame(w, "finish", h)

\* an abort that also marks the scan complete and drops the task
abort_completes(w, h) ==
    /\ CanUse(w, h)
    /\ rec' = [rec EXCEPT ![h].complete = TRUE, ![h].task = "none"]
    /\ bars' = StopProgressBar(h)
    /\ UNCHANGED <<res, out>>
    /\ ScanFrame(w, "abort", h)

\* FeroxScan::abort: stop_progress_bar; the body of `if let Some(_task)` is
\* a comment, the task is left as it is
abort(w, h) ==
    /\ CanUse(w, h)
    /\ bars' = StopProgressBar(h)
    /\ UNCHANGED <<rec, res, out>>
    /\ ScanFrame(w, "abort", h)

\* a progress_bar that makes a new bar at every call
progress_bar_always_new(w, h) ==
    /\ CanUse(w, h)
    /\ bars' = Append(bars, "active")
    /\ rec' = [rec EXCEPT ![h].progress_bar = Len(bars) + 1]
    /\ out' = [out EXCEPT ![w] = <<Len(bars) + 1>>]
    /\ UNCHANGED res
    /\ ScanFrame(w, "progress_bar", h)

\* FeroxScan::progress_bar: a clone of the stored bar, or progress::add_bar,
\* store a clone and return the new bar
progress_bar(w, h) ==
    /\ CanUse(w, h)
    /\ IF rec[h].progress_bar # NoBar
         THEN /\ out' = [out EXCEPT ![w] = <<rec[h].progress_bar>>]
              /\ UNCHANGED <<rec, bars>>
         ELSE /\ bars' = Append(bars, "active")
              /\ rec' = [rec EXCEPT ![h].progress_bar = Len(bars) + 1]
              /\ out' = [out EXCEPT ![w] = <<Len(bars) + 1>>]
    /\ UNCHANGED res
    /\ ScanFrame(w, "progress_bar", h)

\* an equality that compares the urls
ScanEqByUrl(a, b) == a.url = b.url

\* impl PartialEq for FeroxScan: self.id == other.id
ScanEq(a, b) == a.id = b.id

\* a.eq(&b) on two locked records
eq(w, h, g) ==
    /\ CanUse(w, h)
    /\ CanUse(w, g)
    /\ res' = [res EXCEPT ![w] = ScanEq(rec[h], rec[g])]
    /\ out' = [out EXCEPT ![w] = <<g>>]
    /\ UNCHANGED <<rec, bars>>
    /\ ScanFrame(w, "eq", h)

\* the fields are pub: scan_two.id = scan.id.clone(), as the test does
set_id(w, h, g) ==
    /\ CanUse(w, h)
    /\ CanUse(w, g)
    /\ h # g
    /\ rec' = [rec EXCEPT ![h].id = rec[g].id]
    /\ out' = [out EXCEPT ![w] = <<g>>]
    /\ UNCHANGED <<bars, res>>
    /\ ScanFrame(w, "set_id", h)

\* the scanner stores the JoinHandle of the task it spawned for the scan
set_task(w, h) ==
    /\ CanUse(w, h)
    /\ rec[h].task = "none"
    /\ rec' = [rec EXCEPT ![h].task = "running"]
    /\ UNCHANGED <<bars, res, out>>
    /\ ScanFrame(w, "set_task", h)

\* ------------------------------------------------------------- helpers
\* a MutexGuard dropped while its thread unwinds poisons the Mutex
HeldBy(t) == {h \in Handles : recLock[h] = t}

\* `locked_scan.url == url` for the element at position i of the Vec
UrlAt(i) == rec[scans[i]].url

\* ---------------------------------------------------- FeroxScans::insert
\* line 217: scan.lock(); Ok => evaluate !self.contains(&locked_scan.url) with
\* the guard alive; Err => sentry = false
insert_lock(w) ==
    /\ pc[w] = "ins_lock"
    /\ recLock[arg[w]] = Free
    /\ IF arg[w] \in recPoisoned
         THEN /\ sentry' = [sentry EXCEPT ![w] = FALSE]
              /\ pc' = [pc EXCEPT ![w] = "ins_if"]
              /\ UNCHANGED <<recLock, url>>
         ELSE /\ recLock' = [recLock EXCEPT ![arg[w]] = w]
              /\ url' = [url EXCEPT ![w] = rec[arg[w]].url]
              /\ pc' = [pc EXCEPT ![w] = "ct_lock"]
              /\ UNCHANGED sentry
    /\ UNCHANGED <<rec, scans, scansLock, scansPoisoned, recPoisoned>>
    /\ UNCHANGED <<op, arg, idx, res, out, pre>>
    /\ UNCHANGED envVars

\* the value of contains() reaches its caller: insert's match arm ends (the
\* record guard is dropped, sentry = !found), or the direct caller gets it
ContainsReturns(w, found, newScansLock) ==
    /\ scansLock' = newScansLock
    /\ IF op[w] \in {"insert", "add_scan"}
         THEN /\ recLock' = [recLock EXCEPT ![arg[w]] = Free]
              /\ sentry' = [sentry EXCEPT ![w] = ~found]
              /\ pc' = [pc EXCEPT ![w] = "ins_if"]
              /\ UNCHANGED res
         ELSE /\ res' = [res EXCEPT ![w] = found]
              /\ pc' = [pc EXCEPT ![w] = "done"]
              /\ UNCHANGED <<recLock, sentry>>
    /\ idx' = [idx EXCEPT ![w] = 0]

\* -------------------------------------------------- FeroxScans::contains
\* direct call of contains(url)
contains(w, u) ==
    /\ CanCall(w)
    /\ pc' = [pc EXCEPT ![w] = "ct_lock"]
    /\ op' = [op EXCEPT ![w] = "contains"]
    /\ url' = [url EXCEPT ![w] = u]
    /\ pre' = [pre EXCEPT ![w] = Snapshot(NoArg)]
    /\ UNCHANGED regVars
    /\ UNCHANGED <<arg, idx, sentry, res, out>>
    /\ UNCHANGED envVars

\* line 251: self.scans.lock(); Err => log, fall through to `false`
contains_lock(w) ==
    /\ pc[w] = "ct_lock"
    /\ scansLock = Free
    /\ IF scansPoisoned
         THEN ContainsReturns(w, FALSE, Free)
         ELSE /\ scansLock' = w
              /\ idx' = [idx EXCEPT ![w] = 1]
              /\ pc' = [pc EXCEPT ![w] = "ct_iter"]
              /\ UNCHANGED <<recLock, sentry, res>>
    /\ UNCHANGED <<rec, scans, scansPoisoned, recPoisoned>>
    /\ UNCHANGED <<op, arg, url, out, pre>>
    /\ UNCHANGED envVars

\* a loop that takes a stored record for a match only when its scan type is
\* the inserted record's too
contains_iter_typed(w) ==
    /\ pc[w] = "ct_iter"
    /\ IF idx[w] > Len(scans)
         THEN ContainsReturns(w, FALSE, Free)
         ELSE /\ recLock[scans[idx[w]]] = Free
              /\ IF /\ scans[idx[w]] \notin recPoisoned
                    /\ UrlAt(idx[w]) = url[w]
                    /\ op[w] \in {"insert", "add_scan"} =>
                          rec[scans[idx[w]]].scan_type = rec[arg[w]].scan_type
                   THEN ContainsReturns(w, TRUE, Free)
                   ELSE /\ idx' = [idx EXCEPT ![w] = idx[w] + 1]
                        /\ UNCHANGED <<scansLock, recLock, sentry, res, pc>>
    /\ UNCHANGED <<rec, scans, scansPoisoned, recPoisoned>>
    /\ UNCHANGED <<op, arg, url, out, pre>>
    /\ UNCHANGED envVars

\* lines 253-259: one turn of the loop; scan.lock() waits for the record's
\* Mutex, a poisoned record is skipped, a match returns true (guards dropped)
contains_iter(w) ==
    /\ pc[w] = "ct_iter"
    /\ IF idx[w] > Len(scans)
         THEN ContainsReturns(w, FALSE, Free)
         ELSE /\ recLock[scans[idx[w]]] = Free
              /\ IF scans[idx[w]] \notin recPoisoned /\ UrlAt(idx[w]) = url[w]
                   THEN ContainsReturns(w, TRUE, Free)
                   ELSE /\ idx' = [idx EXCEPT ![w] = idx[w] + 1]
                        /\ UNCHANGED <<scansLock, recLock, sentry, res, pc>>
    /\ UNCHANGED <<rec, scans, scansPoisoned, recPoisoned>>
    /\ UNCHANGED <<op, arg, url, out, pre>>
    /\ UNCHANGED envVars

\* insert without line 240's `return false`: a failed push still reports sentry
insert_push_keeps_sentry(w) ==
    /\ pc[w] = "ins_if"
    /\ IF sentry[w]
         THEN /\ scansLock = Free
              /\ scans' = IF scansPoisoned THEN scans ELSE Append(scans, arg[w])
         ELSE UNCHANGED scans
    /\ res' = [res EXCEPT ![w] = sentry[w]]
    /\ pc' = [pc EXCEPT ![w] = "done"]
    /\ UNCHANGED <<rec, scansLock, recLock, scansPoisoned, recPoisoned>>
    /\ UNCHANGED <<op, arg, url, idx, sentry, out, pre>>
    /\ UNCHANGED <<respVars, sigVars, resVars, pauseVars, schedVars, barVars>>
    /\ seen' = Observed(View(scans', rec, responses))

\* lines 230-245: if sentry, self.scans.lock() and push; Err => return false
insert_push(w) ==
    /\ pc[w] = "ins_if"
    /\ IF sentry[w]
         THEN /\ scansLock = Free
              /\ IF scansPoisoned
                   THEN /\ res' = [res EXCEPT ![w] = FALSE]
                        /\ UNCHANGED scans
                   ELSE /\ scans' = Append(scans, arg[w])
                        /\ res' = [res EXCEPT ![w] = TRUE]
         ELSE /\ res' = [res EXCEPT ![w] = FALSE]
              /\ UNCHANGED scans
    /\ pc' = [pc EXCEPT ![w] = "done"]
    /\ UNCHANGED <<rec, scansLock, recLock, scansPoisoned, recPoisoned>>
    /\ UNCHANGED <<op, arg, url, idx, sentry, out, pre>>
    /\ UNCHANGED <<respVars, sigVars, resVars, pauseVars, schedVars, barVars>>
    /\ seen' = Observed(View(scans', rec, responses))

\* ------------------------------------------- FeroxScans::get_scan_by_url
get_scan_by_url(w, u) ==
    /\ CanCall(w)
    /\ pc' = [pc EXCEPT ![w] = "gs_lock"]
    /\ op' = [op EXCEPT ![w] = "find"]
    /\ url' = [url EXCEPT ![w] = u]
    /\ pre' = [pre EXCEPT ![w] = Snapshot(NoArg)]
    /\ UNCHANGED regVars
    /\ UNCHANGED <<arg, idx, sentry, res, out>>
    /\ UNCHANGED envVars

\* line 270: if let Ok(scans) = self.scans.lock(); a poisoned Mutex gives None
get_scan_lock(w) ==
    /\ pc[w] = "gs_lock"
    /\ scansLock = Free
    /\ IF scansPoisoned
         THEN /\ res' = [res EXCEPT ![w] = FALSE]
              /\ pc' = [pc EXCEPT ![w] = "done"]
              /\ UNCHANGED <<scansLock, idx>>
         ELSE /\ scansLock' = w
              /\ idx' = [idx EXCEPT ![w] = 1]
              /\ pc' = [pc EXCEPT ![w] = "gs_iter"]
              /\ UNCHANGED res
    /\ UNCHANGED <<rec, scans, recLock, scansPoisoned, recPoisoned>>
    /\ UNCHANGED <<op, arg, url, sentry, out, pre>>
    /\ UNCHANGED envVars

\* lines 271-279: Some(scan.clone()) for the first record with the url
get_scan_iter(w) ==
    /\ pc[w] = "gs_iter"
    /\ IF idx[w] > Len(scans)
         THEN /\ res' = [res EXCEPT ![w] = FALSE]
              /\ pc' = [pc EXCEPT ![w] = "done"]
              /\ scansLock' = Free
              /\ idx' = [idx EXCEPT ![w] = 0]
              /\ UNCHANGED arg
         ELSE /\ recLock[scans[idx[w]]] = Free
              /\ IF scans[idx[w]] \notin recPoisoned /\ UrlAt(idx[w]) = url[w]
                   THEN /\ res' = [res EXCEPT ![w] = TRUE]
                        /\ arg' = [arg EXCEPT ![w] = scans[idx[w]]]
                        /\ pc' = [pc EXCEPT ![w] = "done"]
                        /\ scansLock' = Free
                        /\ idx' = [idx EXCEPT ![w] = 0]
                   ELSE /\ idx' = [idx EXCEPT ![w] = idx[w] + 1]
                        /\ UNCHANGED <<scansLock, res, arg, pc>>
    /\ UNCHANGED <<rec, scans, recLock, scansPoisoned, recPoisoned>>
    /\ UNCHANGED <<op, url, sentry, out, pre>>
    /\ UNCHANGED envVars

\* ---------------------------------------------- FeroxScans::display_scans
\* impl fmt::Display for FeroxScan, behind "{:3}: {}" with the Vec index
DisplayLine(i, h) ==
    [index |-> i,
     status |-> IF rec[h].complete THEN "complete" ELSE "incomplete",
     url |-> rec[h].url]

\* where display_scans returns to: pause's leader goes on to read stdin
AfterDisplay(w) == IF op[w] = "pause" THEN "p_read" ELSE "done"

display_scans(w) ==
    /\ CanCall(w)
    /\ pc' = [pc EXCEPT ![w] = "ds_lock"]
    /\ op' = [op EXCEPT ![w] = "display"]
    /\ pre' = [pre EXCEPT ![w] = SnapshotAll(NoArg)]
    /\ UNCHANGED regVars
    /\ UNCHANGED <<arg, url, idx, sentry, res, out>>
    /\ UNCHANGED envVars

\* line 289: if let Ok(scans) = self.scans.lock()
display_lock(w) ==
    /\ pc[w] = "ds_lock"
    /\ scansLock = Free
    /\ IF scansPoisoned
         THEN /\ pc' = [pc EXCEPT ![w] = AfterDisplay(w)]
              /\ UNCHANGED <<scansLock, idx>>
         ELSE /\ scansLock' = w
              /\ idx' = [idx EXCEPT ![w] = 1]
              /\ pc' = [pc EXCEPT ![w] = "ds_iter"]
    /\ UNCHANGED <<rec, scans, recLock, scansPoisoned, recPoisoned>>
    /\ UNCHANGED <<op, arg, url, sentry, res, out, pre>>
    /\ UNCHANGED envVars

\* a display loop without the match on scan_type: File scans are printed too
display_iter_all(w) ==
    /\ pc[w] = "ds_iter"
    /\ IF idx[w] > Len(scans)
         THEN /\ pc' = [pc EXCEPT ![w] = AfterDisplay(w)]
              /\ scansLock' = Free
              /\ idx' = [idx EXCEPT ![w] = 0]
              /\ UNCHANGED out
         ELSE /\ recLock[scans[idx[w]]] = Free
              /\ idx' = [idx EXCEPT ![w] = idx[w] + 1]
              /\ out' = [out EXCEPT ![w] =
                    IF scans[idx[w]] \notin recPoisoned
                      THEN Append(out[w], DisplayLine(idx[w] - 1, scans[idx[w]]))
                      ELSE out[w]]
              /\ UNCHANGED <<scansLock, pc>>
    /\ UNCHANGED <<rec, scans, recLock, scansPoisoned, recPoisoned>>
    /\ UNCHANGED <<op, arg, url, sentry, res, pre>>
    /\ UNCHANGED envVars

\* lines 290-302: print a Directory scan, skip a File scan; enumerate() counts
\* from 0 and counts the records it skips
display_iter(w) ==
    /\ pc[w] = "ds_iter"
    /\ IF idx[w] > Len(scans)
         THEN /\ pc' = [pc EXCEPT ![w] = AfterDisplay(w)]
              /\ scansLock' = Free
              /\ idx' = [idx EXCEPT ![w] = 0]
              /\ UNCHANGED out
         ELSE /\ recLock[scans[idx[w]]] = Free
              /\ idx' = [idx EXCEPT ![w] = idx[w] + 1]
              /\ out' = [out EXCEPT ![w] =
                    IF /\ scans[idx[w]] \notin recPoisoned
                       /\ rec[scans[idx[w]]].scan_type = "Directory"
                      THEN Append(out[w], DisplayLine(idx[w] - 1, scans[idx[w]]))
                      ELSE out[w]]
              /\ UNCHANGED <<scansLock, pc>>
    /\ UNCHANGED <<rec, scans, recLock, scansPoisoned, recPoisoned>>
    /\ UNCHANGED <<op, arg, url, sentry, res, pre>>
    /\ UNCHANGED envVars

\* ------------------------------------- locking a Mutex the thread holds
\* std::sync::Mutex::lock on a Mutex already held by the calling thread "will
\* not return": it deadlocks or it panics.  The worker is inside one of the
\* loops and the element it reaches is the record it locked in insert.
Relocks(w) ==
    /\ pc[w] = "ct_iter"
    /\ idx[w] <= Len(scans)
    /\ recLock[scans[idx[w]]] = w

relock_deadlock(w) ==
    /\ Relocks(w)
    /\ pc' = [pc EXCEPT ![w] = "deadlocked"]
    /\ UNCHANGED regVars
    /\ UNCHANGED <<op, arg, url, idx, sentry, res, out, pre>>
    /\ UNCHANGED envVars

\* the panic unwinds: both guards are dropped and poison their Mutex
relock_panic(w) ==
    /\ Relocks(w)
    /\ pc' = [pc EXCEPT ![w] = "panicked"]
    /\ scansLock' = Free
    /\ scansPoisoned' = TRUE
    /\ recPoisoned' = recPoisoned \cup HeldBy(w)
    /\ recLock' = [h \in Handles |-> IF recLock[h] = w THEN Free ELSE recLock[h]]
    /\ UNCHANGED <<rec, scans>>
    /\ UNCHANGED <<op, arg, url, idx, sentry, res, out, pre>>
    /\ UNCHANGED envVars

\* ---------------------------------------------------------- FeroxResponses
\* FeroxResponses::insert: push under the write lock; Err => log and drop
\* a push that skips a response whose url is already stored
PushedOnce(r) ==
    IF respPoisoned \/ \E i \in 1..Len(responses) : responses[i].url = r.url
      THEN responses
      ELSE Append(responses, r)
Pushed(r) == IF respPoisoned THEN responses ELSE Append(responses, r)

\* a worker records a response
resp_insert(w, r) ==
    /\ CanCall(w)
    /\ Len(responses) < MaxResponses
    /\ responses' = Pushed(r)
    /\ pc' = [pc EXCEPT ![w] = "done"]
    /\ op' = [op EXCEPT ![w] = "resp_insert"]
    /\ out' = [out EXCEPT ![w] = <<r>>]
    /\ pre' = [pre EXCEPT ![w] = Snapshot(NoArg)]
    /\ UNCHANGED <<respPoisoned, config>>
    /\ UNCHANGED regVars
    /\ UNCHANGED <<arg, url, idx, sentry, res>>
    /\ UNCHANGED <<sigVars, resVars, pauseVars, schedVars, barVars>>
    /\ seen' = Observed(View(scans, rec, responses'))

\* FeroxResponses::contains: a stored response with other's url, under the
\* read lock; Err => log, false
RespContains(other) ==
    /\ ~respPoisoned
    /\ \E i \in 1..Len(responses) : responses[i].url = other.url

resp_contains(w, r) ==
    /\ CanCall(w)
    /\ res' = [res EXCEPT ![w] = RespContains(r)]
    /\ pc' = [pc EXCEPT ![w] = "done"]
    /\ op' = [op EXCEPT ![w] = "resp_contains"]
    /\ out' = [out EXCEPT ![w] = <<r>>]
    /\ pre' = [pre EXCEPT ![w] = Snapshot(NoArg)]
    /\ UNCHANGED regVars
    /\ UNCHANGED <<arg, url, idx, sentry>>
    /\ UNCHANGED envVars

\* ------------------------------------------- a lock holder that crashes
\* Code outside this file locks the public fields too; a holder that panics
\* leaves the lock poisoned, and every later lock() / read() / write() is Err.
crash_scans ==
    /\ serial => (Quiet /\ hpc = "armed")
    /\ scansLock = Free
    /\ ~scansPoisoned
    /\ scansPoisoned' = TRUE
    /\ UNCHANGED <<rec, scans, scansLock, recLock, recPoisoned>>
    /\ UNCHANGED <<wVars, envVars>>

crash_record(h) ==
    /\ serial => (Quiet /\ hpc = "armed")
    /\ h \in Allocated \ recPoisoned
    /\ recLock[h] = Free
    /\ recPoisoned' = recPoisoned \cup {h}
    /\ UNCHANGED <<rec, scans, scansLock, recLock, scansPoisoned>>
    /\ UNCHANGED <<wVars, envVars>>

crash_responses ==
    /\ serial => (Quiet /\ hpc = "armed")
    /\ ~respPoisoned
    /\ respPoisoned' = TRUE
    /\ UNCHANGED <<responses, config>>
    /\ UNCHANGED <<regVars, wVars, sigVars, resVars, pauseVars, schedVars, barVars, viewVars>>

\* the call returns to the worker, which drops the call's locals
ret(w) ==
    /\ pc[w] = "done"
    /\ pc' = [pc EXCEPT ![w] = "idle"]
    /\ op' = [op EXCEPT ![w] = "none"]
    /\ arg' = [arg EXCEPT ![w] = NoArg]
    /\ url' = [url EXCEPT ![w] = NoUrl]
    /\ sentry' = [sentry EXCEPT ![w] = FALSE]
    /\ res' = [res EXCEPT ![w] = FALSE]
    /\ out' = [out EXCEPT ![w] = <<>>]
    /\ pre' = [pre EXCEPT ![w] = NoPre]
    /\ gui' = [gui EXCEPT ![w] = FALSE]
    /\ leaders' = leaders \ {w}
    /\ waited' = [waited EXCEPT ![w] = FALSE]
    /\ sawClear' = [sawClear EXCEPT ![w] = FALSE]
    /\ clearSince' = [clearSince EXCEPT ![w] = FALSE]
    /\ UNCHANGED <<idx, paused, barrier, spinner>>
    /\ UNCHANGED regVars
    /\ UNCHANGED <<respVars, sigVars, resVars, schedVars, barVars, viewVars>>

\* ------------------------------------------------------ FeroxScans::pause
\* PAUSE_SCAN is a pub static: the terminal input handler and the tests store
\* into it
store_pause_scan(b) ==
    /\ paused # b
    /\ paused' = b
    /\ clearSince' = IF b THEN clearSince ELSE [w \in Workers |-> op[w] = "pause"]
    /\ UNCHANGED <<barrier, spinner, gui, leaders, waited, sawClear>>
    /\ UNCHANGED <<regVars, wVars, respVars, sigVars, resVars, schedVars, barVars, viewVars>>

\* what a step of pause leaves alone, apart from pc and the pause variables
PauseFrame ==
    /\ UNCHANGED regVars
    /\ UNCHANGED <<op, arg, url, idx, sentry, res, out, pre>>
    /\ UNCHANGED <<respVars, sigVars, resVars, schedVars, barVars, viewVars>>

\* lines 312-320: the call starts; the interval and the flush touch nothing
pause(w, g) ==
    /\ CanCall(w)
    /\ pc' = [pc EXCEPT ![w] = "p_load"]
    /\ op' = [op EXCEPT ![w] = "pause"]
    /\ pre' = [pre EXCEPT ![w] = Snapshot(NoArg)]
    /\ gui' = [gui EXCEPT ![w] = g]
    /\ clearSince' = [clearSince EXCEPT ![w] = ~paused]
    /\ UNCHANGED <<paused, barrier, spinner, leaders, waited, sawClear>>
    /\ UNCHANGED regVars
    /\ UNCHANGED <<arg, url, idx, sentry, res, out>>
    /\ UNCHANGED <<respVars, sigVars, resVars, schedVars, barVars, viewVars>>

\* line 322: INTERACTIVE_BARRIER.load(Relaxed) == 0; past the skipped branch
\* get_user_input is not read again
pause_barrier_load(w) ==
    /\ pc[w] = "p_load"
    /\ pc' = [pc EXCEPT ![w] = IF barrier = 0 THEN "p_add" ELSE "p_spin_chk"]
    /\ gui' = IF barrier = 0 THEN gui ELSE [gui EXCEPT ![w] = FALSE]
    /\ UNCHANGED <<paused, barrier, spinner, leaders, waited, sawClear, clearSince>>
    /\ PauseFrame

\* lines 323-326: fetch_add(1), a second atomic operation; with get_user_input
\* the caller goes on to display_scans, and get_user_input is not read again.  The AtomicUsize is kept as its
\* residue modulo 2^64 in -2^63 .. 2^63-1, so usize::MAX reads -1.
pause_barrier_add(w) ==
    /\ pc[w] = "p_add"
    /\ barrier' = barrier + 1
    /\ leaders' = leaders \cup {w}
    /\ pc' = [pc EXCEPT ![w] = IF gui[w] THEN "ds_lock" ELSE "p_spin_chk"]
    /\ gui' = [gui EXCEPT ![w] = FALSE]
    /\ UNCHANGED <<paused, spinner, waited, sawClear, clearSince>>
    /\ PauseFrame

\* lines 328-329: stdin().read_line(..).unwrap() returns when the operator has
\* typed a line, and panics on a read error
pause_read(w, ok) ==
    /\ pc[w] = "p_read"
    /\ pc' = [pc EXCEPT ![w] = IF ok THEN "p_spin_chk" ELSE "panicked"]
    /\ UNCHANGED pauseVars
    /\ PauseFrame

\* line 335: SINGLE_SPINNER.read().unwrap().is_finished(); the read guard is
\* dropped at the end of the condition
pause_spinner_check(w) ==
    /\ pc[w] = "p_spin_chk"
    /\ pc' = [pc EXCEPT ![w] = IF spinner.finished THEN "p_spin_new" ELSE "p_spin_tick"]
    /\ UNCHANGED pauseVars
    /\ PauseFrame

\* lines 342-344: *guard = get_single_spinner()
pause_spinner_new(w) ==
    /\ pc[w] = "p_spin_new"
    /\ spinner' = NewSpinner
    /\ pc' = [pc EXCEPT ![w] = "p_spin_tick"]
    /\ UNCHANGED <<paused, barrier, gui, leaders, waited, sawClear, clearSince>>
    /\ PauseFrame

\* lines 347-349: spinner.enable_steady_tick(120)
pause_spinner_tick(w) ==
    /\ pc[w] = "p_spin_tick"
    /\ spinner' = [spinner EXCEPT !.ticking = TRUE]
    /\ pc' = [pc EXCEPT ![w] = "p_poll"]
    /\ UNCHANGED <<paused, barrier, gui, leaders, waited, sawClear, clearSince>>
    /\ PauseFrame

\* a poll that leaves the loop after its first tick, whatever the flag holds
pause_poll_once(w) ==
    /\ pc[w] = "p_poll"
    /\ pc' = [pc EXCEPT ![w] = "p_bload"]
    /\ sawClear' = [sawClear EXCEPT ![w] = ~paused]
    /\ UNCHANGED <<paused, barrier, spinner, gui, leaders, waited, clearSince>>
    /\ PauseFrame

\* a poll with the test inverted: it leaves the loop when the flag is true
pause_poll_inverted(w) ==
    /\ pc[w] = "p_poll"
    /\ IF paused
         THEN /\ pc' = [pc EXCEPT ![w] = "p_bload"]
              /\ UNCHANGED <<waited, sawClear>>
         ELSE /\ sawClear' = [sawClear EXCEPT ![w] = TRUE]
              /\ UNCHANGED <<pc, waited>>
    /\ UNCHANGED <<paused, barrier, spinner, gui, leaders, clearSince>>
    /\ PauseFrame

\* lines 351-356: interval.tick().await, then PAUSE_SCAN.load(Acquire); true
\* keeps the caller in the loop, false lets it out
pause_poll(w) ==
    /\ pc[w] = "p_poll"
    /\ IF paused
         THEN /\ waited' = [waited EXCEPT ![w] = TRUE]
              /\ UNCHANGED <<pc, sawClear>>
         ELSE /\ sawClear' = [sawClear EXCEPT ![w] = TRUE]
              /\ pc' = [pc EXCEPT ![w] = "p_bload"]
              /\ UNCHANGED waited
    /\ UNCHANGED <<paused, barrier, spinner, gui, leaders, clearSince>>
    /\ PauseFrame

\* line 358: INTERACTIVE_BARRIER.load(Relaxed) == 1
pause_barrier_check(w) ==
    /\ pc[w] = "p_bload"
    /\ pc' = [pc EXCEPT ![w] = IF barrier = 1 THEN "p_bsub" ELSE "p_fin"]
    /\ UNCHANGED pauseVars
    /\ PauseFrame

\* line 359: fetch_sub(1) wraps below zero
pause_barrier_sub(w) ==
    /\ pc[w] = "p_bsub"
    /\ barrier' = barrier - 1
    /\ pc' = [pc EXCEPT ![w] = "p_fin"]
    /\ UNCHANGED <<paused, spinner, gui, leaders, waited, sawClear, clearSince>>
    /\ PauseFrame

\* lines 362-370: spinner.finish_and_clear(), flush, return
pause_finish(w) ==
    /\ pc[w] = "p_fin"
    /\ spinner' = [finished |-> TRUE, ticking |-> FALSE]
    /\ pc' = [pc EXCEPT ![w] = "done"]
    /\ UNCHANGED <<paused, barrier, gui, leaders, waited, sawClear, clearSince>>
    /\ PauseFrame

\* ------------------------------------------- initialize: ctrl+c handler
\* The closure given to ctrlc::set_handler runs on the handler's own thread.
\* lines 534-553: the filename, the warning, the FeroxState of references
interrupt ==
    /\ hpc = "armed"
    /\ rpc = "off"
    /\ serial => Quiet
    /\ hpc' = "h_open"
    /\ captured' = [NoCapture EXCEPT !.taken = TRUE, !.scans = scans,
                        !.responses = responses, !.config = config,
                        !.sp = scansPoisoned, !.rsp = respPoisoned]
    /\ seen' = [seen EXCEPT !.views = IF seen.on THEN {View(scans, rec, responses)}
                                                   ELSE {}]
    /\ UNCHANGED <<hidx, hdoc, file, exitCode, rpc, ridx, rconfig>>
    /\ UNCHANGED <<regVars, wVars, respVars, pauseVars, schedVars, barVars>>

\* line 555: open_file(&filename) gives Some(file) or None
handler_open(opened) ==
    /\ hpc = "h_open"
    /\ hpc' = IF opened THEN "h_scans_lock" ELSE "h_exit"
    /\ captured' = [captured EXCEPT !.opened = opened]
    /\ UNCHANGED <<hidx, hdoc, file, exitCode, rpc, ridx, rconfig>>
    /\ UNCHANGED <<regVars, wVars, respVars, pauseVars, schedVars, barVars, viewVars>>

\* impl Serialize for FeroxScans, line 193: self.scans.lock(); Err => []
serialize_scans_lock ==
    /\ hpc = "h_scans_lock"
    /\ scansLock = Free
    /\ IF scansPoisoned
         THEN /\ hpc' = "h_responses"
              /\ UNCHANGED <<scansLock, hidx>>
         ELSE /\ scansLock' = Sig
              /\ hidx' = 1
              /\ hpc' = "h_scans_iter"
    /\ hdoc' = [hdoc EXCEPT !.scans = <<>>]
    /\ UNCHANGED <<rec, scans, recLock, scansPoisoned, recPoisoned>>
    /\ UNCHANGED <<file, exitCode, resVars>>
    /\ UNCHANGED <<wVars, respVars, pauseVars, schedVars, barVars, viewVars>>

\* lines 196-202: each record that can be locked is written, in Vec order
serialize_scans_iter ==
    /\ hpc = "h_scans_iter"
    /\ IF hidx > Len(scans)
         THEN /\ scansLock' = Free
              /\ hidx' = 0
              /\ hpc' = "h_responses"
              /\ UNCHANGED hdoc
         ELSE /\ recLock[scans[hidx]] = Free
              /\ hidx' = hidx + 1
              /\ hdoc' = [hdoc EXCEPT !.scans =
                    IF scans[hidx] \in recPoisoned
                      THEN hdoc.scans
                      ELSE Append(hdoc.scans, ScanJson(scans[hidx]))]
              /\ UNCHANGED <<scansLock, hpc>>
    /\ UNCHANGED <<rec, scans, recLock, scansPoisoned, recPoisoned>>
    /\ UNCHANGED <<file, exitCode, resVars>>
    /\ UNCHANGED <<wVars, respVars, pauseVars, schedVars, barVars, viewVars>>

\* a serializer that loses the newest response
SerializeAllButLast ==
    IF respPoisoned THEN <<>>
    ELSE [i \in 1..(Len(responses) - 1) |-> EncodeResponse(responses[i])]

\* impl Serialize for FeroxResponses: every response in Vec order under the
\* read lock; Err => []
SerializeResponses ==
    IF respPoisoned THEN <<>>
    ELSE [i \in 1..Len(responses) |-> EncodeResponse(responses[i])]

\* derive(Serialize) for FeroxState: the config and responses members follow
serialize_rest ==
    /\ hpc = "h_responses"
    /\ hdoc' = [hdoc EXCEPT !.config = EncodeConfig(config),
                            !.responses = SerializeResponses]
    /\ hpc' = "h_write"
    /\ UNCHANGED <<hidx, file, exitCode, resVars>>
    /\ UNCHANGED <<regVars, wVars, respVars, pauseVars, schedVars, barVars, viewVars>>

\* FeroxState::as_json, the text safe_file_write puts in the state file
StateJson(doc) ==
    JObj([scans |-> JArr(doc.scans), config |-> doc.config,
          responses |-> JArr(doc.responses)])

\* line 558: safe_file_write(&state, buffered_file, true)
handler_write ==
    /\ hpc = "h_write"
    /\ file' = StateJson(hdoc)
    /\ hpc' = "h_exit"
    /\ UNCHANGED <<hidx, hdoc, exitCode, resVars>>
    /\ UNCHANGED <<regVars, wVars, respVars, pauseVars, schedVars, barVars, viewVars>>

\* line 561: std::process::exit(1) ends every thread of the process
handler_exit ==
    /\ hpc = "h_exit"
    /\ hpc' = "exited"
    /\ exitCode' = 1
    /\ captured' = [captured EXCEPT !.final = responses]
    /\ pc' = [w \in Workers |-> "stopped"]
    /\ UNCHANGED <<op, arg, url, idx, sentry, res, out, pre>>
    /\ UNCHANGED <<hidx, hdoc, file, rpc, ridx, rconfig>>
    /\ UNCHANGED <<regVars, respVars, pauseVars, schedVars, barVars, viewVars>>

\* ------------------------------------------------------------ resume_scan
\* the sequences over S of length at most n
SeqsUpTo(S, n) == UNION {[1..k -> S] : k \in 0..n}

\* The files resume_scan can be pointed at: no file, text that is no JSON, a
\* JSON value that is no object, and objects whose config section is absent,
\* mistyped or well formed and whose responses section is absent, no array,
\* or an array of well-formed and malformed elements.
Absent == JScalar("absent", "")
ConfigSections == {Absent, JStr("deep")} \cup {EncodeConfig(c) : c \in Configs}
ResponseElements == {JNull} \cup {EncodeResponse(r) : r \in Responses}
ResponseSections ==
    {Absent, JStr("none")} \cup {JArr(q) : q \in SeqsUpTo(ResponseElements, MaxResponses)}
StateObject(c, r) ==
    JObj([k \in {"scans"} \cup (IF c = Absent THEN {} ELSE {"config"})
                          \cup (IF r = Absent THEN {} ELSE {"responses"}) |->
            CASE k = "scans" -> JArr(<<>>)
              [] k = "config" -> c
              [] k = "responses" -> r])
Files ==
    {NoFile, Garbage, JNull}
        \cup {StateObject(c, r) : c \in ConfigSections, r \in ResponseSections}

\* state files whose scans section varies: absent, not an array, empty, or
\* holding what Serialize for FeroxScan writes (or a null) for one scan
ScanObject(u, t) ==
    JObj([id |-> JStr("f"), url |-> JStr(u), scan_type |-> JStr(t),
          complete |-> JBool(FALSE)])
ScanElements == {JNull} \cup {ScanObject(u, "Directory") : u \in Urls}
ScanSections ==
    {Absent, JStr("none")} \cup {JArr(q) : q \in SeqsUpTo(ScanElements, 1)}
StateFile(sc, c, r) ==
    JObj([k \in (IF sc = Absent THEN {} ELSE {"scans"})
                   \cup (IF c = Absent THEN {} ELSE {"config"})
                   \cup (IF r = Absent THEN {} ELSE {"responses"}) |->
            CASE k = "scans" -> sc
              [] k = "config" -> c
              [] k = "responses" -> r])
FilesWithScans ==
    {Garbage} \cup
    {StateFile(sc, c, r) :
        sc \in ScanSections,
        c \in {Absent, EncodeConfig(DefaultConfig)},
        r \in {JArr(<<>>), JArr(<<JNull>>)}
                 \cup {JArr(<<EncodeResponse(x)>>) : x \in [url : Urls, status : {200}]}}

\* resume_scan(filename) called in a process whose registries are in use, on
\* the file f, while no registry call runs
resume_call(f) ==
    /\ rpc = "off"
    /\ hpc = "armed"
    /\ Quiet
    /\ rpc' = "r_open"
    /\ file' = f
    /\ UNCHANGED <<hpc, hidx, hdoc, exitCode>>
    /\ UNCHANGED <<ridx, rconfig, captured>>
    /\ UNCHANGED <<regVars, wVars, respVars, pauseVars, schedVars, barVars, viewVars>>

\* a later run of the program is started on the state file: a new process,
\* its statics fresh, resume_scan(filename) called before any worker exists
resume_start ==
    /\ hpc = "exited"
    /\ rpc = "off"
    /\ rpc' = "r_open"
    /\ hpc' = "armed"
    /\ exitCode' = 0
    /\ hidx' = 0
    /\ hdoc' = NoDoc
    /\ responses' = <<>>
    /\ respPoisoned' = FALSE
    /\ config' = DefaultConfig
    /\ rec' = [h \in Handles |-> DefaultScan]
    /\ bars' = <<>>
    /\ scans' = <<>>
    /\ scansLock' = Free
    /\ recLock' = [h \in Handles |-> Free]
    /\ scansPoisoned' = FALSE
    /\ recPoisoned' = {}
    /\ UNCHANGED <<file, ridx, rconfig, captured>>
    /\ UNCHANGED <<wVars, pauseVars, schedVars, viewVars>>

\* what a step of resume_scan leaves alone
ResumeFrame ==
    /\ UNCHANGED <<regVars, wVars, sigVars, pauseVars, schedVars, barVars, viewVars>>
    /\ UNCHANGED <<respPoisoned, config, captured>>

\* line 576: File::open(filename).unwrap()
resume_open ==
    /\ rpc = "r_open"
    /\ rpc' = IF file = NoFile THEN "r_panicked" ELSE "r_parse"
    /\ UNCHANGED <<responses, ridx, rconfig>>
    /\ ResumeFrame

\* line 578: serde_json::from_reader(reader).unwrap()
resume_parse ==
    /\ rpc = "r_parse"
    /\ rpc' = IF file.kind = "garbage" THEN "r_panicked" ELSE "r_config"
    /\ UNCHANGED <<responses, ridx, rconfig>>
    /\ ResumeFrame

\* a reader that falls back on the default configuration
resume_config_or_default ==
    /\ rpc = "r_config"
    /\ rpc' = "r_responses"
    /\ rconfig' = IF HasField(file, "config") /\ ConfigDecodes(file.fields.config)
                    THEN DecodeConfig(file.fields.config)
                    ELSE DefaultConfig
    /\ UNCHANGED <<responses, ridx>>
    /\ ResumeFrame

\* lines 581-582: from_value(state.get("config").unwrap().clone()).unwrap();
\* Value::get gives None for a value that is no object
resume_config ==
    /\ rpc = "r_config"
    /\ IF HasField(file, "config") /\ ConfigDecodes(file.fields.config)
         THEN /\ rconfig' = DecodeConfig(file.fields.config)
              /\ rpc' = "r_responses"
         ELSE /\ rpc' = "r_panicked"
              /\ UNCHANGED rconfig
    /\ UNCHANGED <<responses, ridx>>
    /\ ResumeFrame

\* a resume_scan with line 582 in use: the first scan of the file's scans
\* section is put into the registry
ReplaysScan ==
    /\ HasField(file, "scans") /\ file.fields.scans.kind = "array"
    /\ Len(file.fields.scans.items) > 0
    /\ HasField(file.fields.scans.items[1], "url")
    /\ Handles \ Allocated # {}
resume_responses_and_scans ==
    /\ rpc = "r_responses"
    /\ IF HasField(file, "responses") /\ file.fields.responses.kind = "array"
         THEN /\ rpc' = "r_iter"
              /\ ridx' = 1
         ELSE /\ rpc' = "r_panicked"
              /\ UNCHANGED ridx
    /\ IF ReplaysScan
         THEN /\ rec' = [rec EXCEPT ![NextHandle] =
                    NewScan(NextHandle, file.fields.scans.items[1].fields.url.lit,
                            "Directory", NoBar)]
              /\ scans' = Append(scans, NextHandle)
         ELSE UNCHANGED <<rec, scans>>
    /\ UNCHANGED <<responses, rconfig>>
    /\ UNCHANGED <<scansLock, recLock, scansPoisoned, recPoisoned>>
    /\ UNCHANGED <<wVars, sigVars, pauseVars, schedVars, barVars, viewVars>>
    /\ UNCHANGED <<respPoisoned, config, captured>>

\* line 584: state.get("responses").unwrap().as_array().unwrap()
resume_responses ==
    /\ rpc = "r_responses"
    /\ IF HasField(file, "responses") /\ file.fields.responses.kind = "array"
         THEN /\ rpc' = "r_iter"
              /\ ridx' = 1
         ELSE /\ rpc' = "r_panicked"
              /\ UNCHANGED ridx
    /\ UNCHANGED <<responses, rconfig>>
    /\ ResumeFrame

\* lines 586-589: one turn of the loop: from_value(response.clone()).unwrap(),
\* then RESPONSES.insert(response); after the last element the prints follow
resume_iter ==
    /\ rpc = "r_iter"
    /\ LET items == file.fields.responses.items IN
        IF ridx > Len(items)
          THEN /\ rpc' = "r_done"
               /\ UNCHANGED <<responses, ridx>>
          ELSE IF ResponseDecodes(items[ridx])
                 THEN /\ responses' = Pushed(DecodeResponse(items[ridx]))
                      /\ ridx' = ridx + 1
                      /\ UNCHANGED rpc
                 ELSE /\ rpc' = "r_panicked"
                      /\ UNCHANGED <<responses, ridx>>
    /\ UNCHANGED rconfig
    /\ ResumeFrame

\* lines 598-599: `config` goes back to the caller
resume_return ==
    /\ rpc = "r_done"
    /\ rpc' = "returned"
    /\ UNCHANGED <<responses, ridx, rconfig>>
    /\ ResumeFrame

\* --------------------------------------------------------- specifications
\* a step of a registry call by worker w
RegistryStep(w) ==
    \/ \E u \in Urls, t \in ScanTypes : add_scan(w, u, t)
    \/ \E h \in Handles : insert(w, h)
    \/ \E u \in Urls : contains(w, u)
    \/ \E u \in Urls : get_scan_by_url(w, u)
    \/ display_scans(w)
    \/ insert_lock(w)
    \/ contains_lock(w)
    \/ contains_iter(w)
    \/ insert_push(w)
    \/ get_scan_lock(w)
    \/ get_scan_iter(w)
    \/ display_lock(w)
    \/ display_iter(w)
    \/ relock_deadlock(w)
    \/ relock_panic(w)
    \/ ret(w)

\* a step of the ctrl+c handler thread, once the signal has arrived
HandlerStep ==
    \/ \E opened \in BOOLEAN : handler_open(opened)
    \/ serialize_scans_lock
    \/ serialize_scans_iter
    \/ serialize_rest
    \/ handler_write
    \/ handler_exit

\* Spec: any number of workers inside ScanRegistry calls at once
Next == \E w \in Workers : RegistryStep(w)

Spec == Init /\ [][Next]_vars

\* the calls that insert a scan
InsertStep(w) ==
    \/ \E u \in Urls : add_scan(w, u, "Directory")
    \/ \E h \in Handles : insert(w, h)
    \/ insert_lock(w)
    \/ contains_lock(w)
    \/ contains_iter(w)
    \/ insert_push(w)
    \/ relock_deadlock(w)
    \/ relock_panic(w)
    \/ ret(w)

\* the steps a started call takes by itself
CallProgress(w) ==
    \/ insert_lock(w)
    \/ contains_lock(w)
    \/ contains_iter(w)
    \/ insert_push(w)
    \/ ret(w)

\* SpecSeq: calls that do not overlap.  A call starts only when no other call
\* is in progress; locks are poisoned and ctrl+c arrives between calls.
\* insert, contains and find of the scan registry
LookupStep(w) ==
    \/ InsertStep(w)
    \/ \E u \in Urls : contains(w, u)
    \/ \E u \in Urls : get_scan_by_url(w, u)
    \/ get_scan_lock(w)
    \/ get_scan_iter(w)

\* the same start, with the callers taking turns
InitSeq ==
    /\ Fresh
    /\ pc = [w \in Workers |-> "idle"]
    /\ config = DefaultConfig
    /\ file = NoFile
    /\ rpc = "off"
    /\ serial = TRUE
    /\ seen = NoViews

NextSeq ==
    \/ \E w \in Workers :
         \/ LookupStep(w)
         \/ \E u \in Urls : resp_insert(w, [url |-> u, status |-> 200])
         \/ \E u \in Urls : resp_contains(w, [url |-> u, status |-> 200])
    \/ crash_scans
    \/ \E h \in Handles : crash_record(h)
    \/ crash_responses
    \/ interrupt
    \/ HandlerStep

SpecSeq == InitSeq /\ [][NextSeq]_vars

\* SpecInt: workers insert scans while ctrl+c arrives.  The handler thread and
\* every call in progress keep being scheduled.
NextInt ==
    \/ \E w \in Workers : InsertStep(w)
    \/ interrupt
    \/ HandlerStep

SpecInt ==
    /\ Init
    /\ [][NextInt]_vars
    /\ WF_vars(HandlerStep)
    /\ \A w \in Workers : WF_vars(CallProgress(w))

\* SpecPause: workers call pause while PAUSE_SCAN is stored into.  A caller
\* inside pause keeps being scheduled: its poll ticks keep coming; the
\* operator's input and the stores are under nobody's control.
PauseProgress(w) ==
    \/ pause_barrier_load(w)
    \/ pause_barrier_add(w)
    \/ display_lock(w)
    \/ display_iter(w)
    \/ pause_spinner_check(w)
    \/ pause_spinner_new(w)
    \/ pause_spinner_tick(w)
    \/ pause_poll(w)
    \/ pause_barrier_check(w)
    \/ pause_barrier_sub(w)
    \/ pause_finish(w)

PauseStep(w) ==
    \/ \E g \in BOOLEAN : pause(w, g)
    \/ PauseProgress(w)
    \/ \E ok \in BOOLEAN : pause_read(w, ok)
    \/ ret(w)

NextPause ==
    \/ \E w \in Workers : PauseStep(w)
    \/ \E b \in BOOLEAN : store_pause_scan(b)

SpecPause ==
    /\ Init
    /\ [][NextPause]_vars
    /\ \A w \in Workers : WF_vars(PauseProgress(w))

\* SpecSnap: workers record responses, ctrl+c writes the state file, and a
\* later run resumes from it.  A run may also be started on any file at all.
\* The model follows a resumed run up to resume_scan's return, before workers
\* exist.  No lock is poisoned here.
ResumeStep ==
    \/ resume_open
    \/ resume_parse
    \/ resume_config
    \/ resume_responses
    \/ resume_iter
    \/ resume_return

InitSnap ==
    /\ Fresh
    /\ serial = FALSE
    /\ seen = NoViews
    /\ \/ /\ rpc = "off"
          /\ pc = [w \in Workers |-> "idle"]
          /\ config \in Configs
          /\ file = NoFile
       \/ /\ rpc = "r_open"
          /\ pc = [w \in Workers |-> "stopped"]
          /\ config = DefaultConfig
          /\ file \in Files

NextSnap ==
    \/ \E w \in Workers :
         \/ \E r \in Responses : resp_insert(w, r)
         \/ ret(w)
    \/ interrupt
    \/ HandlerStep
    \/ resume_start
    \/ ResumeStep

SpecSnap == InitSnap /\ [][NextSnap]_vars

\* SpecResp: any number of workers record responses and look responses up at
\* once; the responses lock can be poisoned by a holder outside this file and
\* ctrl+c can arrive at any moment.
RespStep(w) ==
    \/ \E r \in Responses : resp_insert(w, r)
    \/ \E r \in Responses : resp_contains(w, r)
    \/ ret(w)

NextResp ==
    \/ \E w \in Workers : RespStep(w)
    \/ crash_responses
    \/ interrupt
    \/ HandlerStep

SpecResp == Init /\ [][NextResp]_vars

\* SpecRestore: callers take turns adding scans and finishing them, and
\* resume_scan is called once, on any of the files, at any quiet moment.
RestoreCallerStep(w) ==
    \/ \E u \in Urls, t \in ScanTypes : add_scan(w, u, t)
    \/ insert_lock(w)
    \/ contains_lock(w)
    \/ contains_iter(w)
    \/ insert_push(w)
    \/ \E h \in Handles : finish(w, h)
    \/ ret(w)

NextRestore ==
    \/ \E w \in Workers : RestoreCallerStep(w)
    \/ \E f \in FilesWithScans : resume_call(f)
    \/ ResumeStep

SpecRestore == InitSeq /\ [][NextRestore]_vars

\* SpecView: a worker adds scans and finishes them while the others record
\* responses, all at once, and ctrl+c arrives; the history of what the registries held during
\* the capture is kept.
InitView ==
    /\ Fresh
    /\ pc = [w \in Workers |-> "idle"]
    /\ config = DefaultConfig
    /\ file = NoFile
    /\ rpc = "off"
    /\ serial = FALSE
    /\ seen = [on |-> TRUE, views |-> {}]

\* the scanning task adds scans and finishes them; the other workers are
\* the tasks that record responses
Scanners == {1}
Reporters == Workers \ Scanners

ViewStep(w) ==
    \/ \E u \in IF w \in Scanners THEN Urls ELSE {} : add_scan(w, u, "Directory")
    \/ insert_lock(w)
    \/ contains_lock(w)
    \/ contains_iter(w)
    \/ insert_push(w)
    \/ \E h \in IF w \in Scanners THEN Handles ELSE {} : finish(w, h)
    \/ \E u \in IF w \in Reporters THEN Urls ELSE {} :
           resp_insert(w, [url |-> u, status |-> 200])
    \/ ret(w)

NextView ==
    \/ \E w \in Workers : ViewStep(w)
    \/ interrupt
    \/ HandlerStep

SpecView == InitView /\ [][NextView]_vars

\* SpecWait: the last worker issues registry calls, and only while a caller
\* is in pause's poll loop; the other workers call pause; PAUSE_SCAN is
\* stored into at any moment.
Waiters == Workers \ {NumWorkers}
InLoop(w) == op[w] = "pause" /\ pc[w] = "p_poll"
\* what worker w may pass to a registry call it starts now
Issued(w, S) ==
    IF w \notin Waiters /\ (\E v \in Waiters : InLoop(v)) THEN S ELSE {}

WaitStep(w) ==
    \/ \E g \in IF w \in Waiters THEN BOOLEAN ELSE {} : pause(w, g)
    \/ PauseProgress(w)
    \/ \E ok \in BOOLEAN : pause_read(w, ok)
    \/ \E u \in Issued(w, Urls) : add_scan(w, u, "Directory")
    \/ \E h \in Issued(w, Handles) : insert(w, h)
    \/ \E u \in Issued(w, Urls) : contains(w, u)
    \/ \E u \in Issued(w, Urls) : get_scan_by_url(w, u)
    \/ \E h \in Issued(w, Handles) : finish(w, h)
    \/ \E u \in Issued(w, Urls) : resp_insert(w, [url |-> u, status |-> 200])
    \/ \E u \in Issued(w, Urls) : resp_contains(w, [url |-> u, status |-> 200])
    \/ insert_lock(w)
    \/ contains_lock(w)
    \/ contains_iter(w)
    \/ insert_push(w)
    \/ get_scan_lock(w)
    \/ get_scan_iter(w)
    \/ relock_deadlock(w)
    \/ relock_panic(w)
    \/ ret(w)

NextWait ==
    \/ \E w \in Workers : WaitStep(w)
    \/ \E b \in BOOLEAN : store_pause_scan(b)

SpecWait == Init /\ [][NextWait]_vars

\* SpecAdd: callers take turns adding scans of both types, inserting handles
\* they hold and looking urls up; no lock is poisoned from outside.
AddStep(w) ==
    \/ \E u \in Urls, t \in ScanTypes : add_scan(w, u, t)
    \/ \E u \in Urls, t \in ScanTypes : new(w, u, t, FALSE)
    \/ \E h \in Handles : insert(w, h)
    \/ insert_lock(w)
    \/ contains_lock(w)
    \/ contains_iter(w)
    \/ insert_push(w)
    \/ relock_deadlock(w)
    \/ relock_panic(w)
    \/ ret(w)

NextAdd == \E w \in Workers : AddStep(w)

SpecAdd == InitSeq /\ [][NextAdd]_vars

\* SpecRec: callers take turns creating records and calling their methods.
ScanStep(w) ==
    \/ \E u \in Urls, t \in ScanTypes, b \in BOOLEAN : new(w, u, t, b)
    \/ \E h \in Handles : finish(w, h)
    \/ \E h \in Handles : abort(w, h)
    \/ \E h \in Handles : progress_bar(w, h)
    \/ \E h \in Handles : set_task(w, h)
    \/ \E h, g \in Handles : eq(w, h, g)
    \/ \E h, g \in Handles : set_id(w, h, g)
    \/ ret(w)

NextRec == \E w \in Workers : ScanStep(w)

SpecRec == InitSeq /\ [][NextRec]_vars

\* SpecLife: the life of the stored scans.  Callers take turns adding scans,
\* finishing and aborting them, asking for their progress bars, displaying
\* the registry and pausing; PAUSE_SCAN is stored into and ctrl+c arrives.
LifeStep(w) ==
    \/ \E u \in Urls, t \in ScanTypes : add_scan(w, u, t)
    \/ insert_lock(w)
    \/ contains_lock(w)
    \/ contains_iter(w)
    \/ insert_push(w)
    \/ \E h \in Handles : finish(w, h)
    \/ \E h \in Handles : abort(w, h)
    \/ \E h \in Handles : progress_bar(w, h)
    \/ display_scans(w)
    \/ display_lock(w)
    \/ display_iter(w)
    \/ pause(w, TRUE)
    \/ PauseProgress(w)
    \/ pause_read(w, TRUE)
    \/ ret(w)

NextLife ==
    \/ \E w \in Workers : LifeStep(w)
    \/ \E b \in BOOLEAN : store_pause_scan(b)
    \/ interrupt
    \/ HandlerStep

SpecLife == InitSeq /\ [][NextLife]_vars

\* ================================================================ claims
InsertCall(w) == op[w] \in {"insert", "add_scan"}
Healthy(p) == ~p.sp /\ p.rps = {}
\* some record of the sequence carries url u
UrlIn(seq, u) == \E i \in 1..Len(seq) : rec[seq[i]].url = u
Failed(w) == pc[w] \in {"deadlocked", "panicked"}

\* The holder of the lock a thread is about to take (Free: it waits for none).
Awaited(w) ==
    CASE pc[w] = "ins_lock" -> recLock[arg[w]]
      [] pc[w] \in {"ct_lock", "gs_lock", "ds_lock"} -> scansLock
      [] pc[w] = "ins_if" /\ sentry[w] -> scansLock
      [] pc[w] \in {"ct_iter", "gs_iter", "ds_iter"} /\ idx[w] <= Len(scans) ->
            recLock[scans[idx[w]]]
      [] OTHER -> Free
HandlerAwaited ==
    CASE hpc = "h_scans_lock" -> scansLock
      [] hpc = "h_scans_iter" /\ hidx <= Len(scans) -> recLock[scans[hidx]]
      [] OTHER -> Free
AwaitedBy(t) == IF t = Sig THEN HandlerAwaited ELSE Awaited(t)

\* Thread t can never go on: it is deadlocked, or the chain of holders it
\* waits for ends in a deadlocked thread or closes into a cycle (a chain
\* longer than the number of threads).
RECURSIVE WaitsForever(_, _)
WaitsForever(t, n) ==
    IF t # Sig /\ pc[t] = "deadlocked" THEN TRUE
    ELSE IF AwaitedBy(t) = Free THEN FALSE
    ELSE IF n = 0 THEN TRUE
    ELSE WaitsForever(AwaitedBy(t), n - 1)

\* C1: concurrent inserts of distinct records with the same url: the registry
\* never holds two entries with one url, and no two of the calls return true.
C1_OneInsertPerUrl ==
    /\ \A i, j \in 1..Len(scans) : i # j => UrlAt(i) # UrlAt(j)
    /\ \A w, v \in Workers :
         (/\ w # v /\ InsertCall(w) /\ InsertCall(v)
          /\ pc[w] = "done" /\ pc[v] = "done"
          /\ arg[w] # arg[v] /\ rec[arg[w]].url = rec[arg[v]].url)
         => ~(res[w] /\ res[v])

\* C2: calls that do not overlap, healthy locks: insert returns, it returns
\* true iff no stored entry had the record's url, it appends the record when
\* it returns true and leaves the sequence as it was when it returns false.
C2_InsertDedups ==
    \A w \in Workers :
        (InsertCall(w) /\ Healthy(pre[w])) =>
            /\ ~Failed(w)
            /\ pc[w] = "done" =>
                 /\ res[w] = ~UrlIn(pre[w].scans, rec[arg[w]].url)
                 /\ scans = IF res[w] THEN Append(pre[w].scans, arg[w])
                                      ELSE pre[w].scans

\* C3: no call of insert, contains, find or display_active waits forever for
\* the collection lock or a record lock, whatever handle insert is given;
\* every call can still return.
C3_NoCallWaitsForever ==
    \A w \in Workers : ~WaitsForever(w, NumWorkers + 1) /\ pc[w] # "panicked"

\* C8: once the interrupt handler runs the process ends with exit code 1,
\* and the state file is written iff it could be opened.
C8_InterruptLeadsToExit ==
    /\ (hpc = "h_open") ~> (hpc = "exited" /\ exitCode = 1)
    /\ [](hpc = "exited" => ((file # NoFile) <=> captured.opened))

\* C10: a poisoned lock degrades the operation and never fails it.  Collection
\* lock poisoned: insert returns false and stores nothing, contains returns
\* false, find returns none, the serialized scans list is empty.  Responses
\* lock poisoned: insert drops the record, contains returns false, the
\* serialized responses list is empty.  The inserted record's own lock
\* poisoned: insert returns false and stores nothing.
C10_PoisonedLocksDegrade ==
    /\ \A w \in Workers :
         /\ (InsertCall(w) /\ (pre[w].sp \/ pre[w].rp)) =>
               /\ ~Failed(w)
               /\ pc[w] = "done" => (~res[w] /\ scans = pre[w].scans)
         /\ (op[w] \in {"contains", "find"} /\ pre[w].sp) =>
               /\ ~Failed(w)
               /\ pc[w] = "done" => (~res[w] /\ arg[w] = NoArg)
         /\ (op[w] = "resp_insert" /\ pre[w].rsp /\ pc[w] = "done") =>
               responses = pre[w].resp
         /\ (op[w] = "resp_contains" /\ pre[w].rsp /\ pc[w] = "done") =>
               ~res[w]
    /\ (hpc \in {"h_write", "h_exit", "exited"} /\ captured.opened) =>
         /\ captured.sp => hdoc.scans = <<>>
         /\ captured.rsp => hdoc.responses = <<>>
    /\ (hpc = "exited" /\ captured.opened) =>
         /\ captured.sp => file.fields.scans.items = <<>>
         /\ captured.rsp => file.fields.responses.items = <<>>

\* C10's case: a scan with a new url is turned away from a registry that
\* holds entries, because the collection lock is poisoned
C10_Witness ==
    /\ \E w \in Workers :
         /\ op[w] = "add_scan" /\ pc[w] = "done" /\ pre[w].sp
         /\ ~UrlIn(pre[w].scans, rec[arg[w]].url)
         /\ pre[w].scans # <<>>

\* ------------------------------------------------------------------ pause
PauseCall(w) == op[w] = "pause"
\* the caller is past the loop: it is on its way out of pause or has returned
LeftLoop(w) == PauseCall(w) /\ pc[w] \in {"p_bload", "p_bsub", "p_fin", "done"}
Returned(w) == PauseCall(w) /\ pc[w] = "done"

\* C4: a caller leaves pause's loop, and so returns, only after its poll found
\* the flag false, and the flag has then been false at some moment since the
\* caller entered: while the flag stays true no caller returns.
C4_ReturnOnlyAfterClear ==
    \A w \in Workers : LeftLoop(w) => (sawClear[w] /\ clearSince[w])

\* C4's case: a caller that was held in the loop by a true flag has returned
C4_Witness ==
    \E w \in Workers : Returned(w) /\ waited[w] /\ sawClear[w]

\* C5 as stated: once the flag is false, every caller in the poll loop
\* eventually returns.
C5_ClearReleasesAll ==
    \A w \in Workers :
        (PauseCall(w) /\ pc[w] = "p_poll" /\ ~paused) ~> Returned(w)

\* C5 amended: once the flag is false, every caller in the poll loop eventually
\* returns unless the flag is stored true again before the caller's next poll.
C5_ClearReleasesUnlessPausedAgain ==
    \A w \in Workers :
        (PauseCall(w) /\ pc[w] = "p_poll" /\ ~paused) ~> (Returned(w) \/ paused)

\* C5's case: every worker was held in the loop and every one has returned
C5_Witness ==
    \A w \in Workers : Returned(w) /\ waited[w] /\ ~paused

\* C6: of the callers that entered pause during the pause episode that is
\* still going on, at most one has taken the leader branch.
C6_OneLeaderPerEpisode ==
    Cardinality({w \in leaders : PauseCall(w) /\ ~clearSince[w]}) <= 1

\* --------------------------------------------------- snapshot and restore
\* resume_scan has inserted its last response and holds the value it returns
Restored == rpc = "r_done"
\* the file is one resume_scan can read to the end
FileOk(f) ==
    /\ HasField(f, "config") /\ ConfigDecodes(f.fields.config)
    /\ HasField(f, "responses") /\ f.fields.responses.kind = "array"
    /\ \A i \in 1..Len(f.fields.responses.items) :
         ResponseDecodes(f.fields.responses.items[i])

\* C7: a snapshot captured while the response registry held N records that no
\* worker added to during the capture, written to the file and restored into
\* an empty registry, gives back those N records in their order and a
\* configuration equal to the captured one.
C7_SnapshotRoundTrip ==
    (Restored /\ captured.taken /\ captured.opened
              /\ captured.final = captured.responses) =>
        /\ responses = captured.responses
        /\ rconfig = captured.config

\* C7's case: two different responses and a configuration that is not the
\* default one went through the file and came back
C7_Witness ==
    /\ Restored /\ captured.taken /\ captured.opened
    /\ captured.final = captured.responses
    /\ Len(captured.responses) = MaxResponses
    /\ captured.responses[1] # captured.responses[2]
    /\ captured.config # DefaultConfig
    /\ responses = captured.responses

\* C9: resume_scan gets to its return only on a file it could read to the
\* end, with every element of the responses section inserted and the file's
\* configuration as its value; on any other file it panics, and nothing runs
\* after the panic.
C9_RestoreAllOrNothing ==
    /\ rpc \in {"r_done", "returned"} =>
         /\ FileOk(file)
         /\ rconfig = DecodeConfig(file.fields.config)
         /\ responses = [i \in 1..Len(file.fields.responses.items) |->
                            DecodeResponse(file.fields.responses.items[i])]
    /\ rpc = "r_panicked" =>
         /\ ~FileOk(file)
         /\ \A w \in Workers : pc[w] = "stopped"

\* C9's case: the run ended on a malformed element after it had replayed an
\* earlier one
C9_Witness ==
    /\ rpc = "r_panicked"
    /\ responses # <<>>
    /\ HasField(file, "responses")
    /\ Len(responses) < Len(file.fields.responses.items)

\* ------------------------------------------------------ dedup by url only
\* C11: calls that take turns, healthy locks: add_scan of a url that has a
\* stored entry returns false and leaves the registry as it was, whatever the
\* two scan types are; add_scan of a new url returns true and appends; the
\* registry never holds two entries with one url.
C11_DedupByUrlOnly ==
    /\ \A w \in Workers :
         (op[w] = "add_scan" /\ pc[w] = "done" /\ Healthy(pre[w])) =>
            IF UrlIn(pre[w].scans, rec[arg[w]].url)
              THEN ~res[w] /\ scans = pre[w].scans
              ELSE res[w] /\ scans = Append(pre[w].scans, arg[w])
    /\ \A i, j \in 1..Len(scans) : i # j => UrlAt(i) # UrlAt(j)

\* C11's case: a scan is turned away by the stored scan of its url, which is
\* of the other type
C11_Witness ==
    \E w \in Workers :
        /\ op[w] = "add_scan" /\ pc[w] = "done" /\ ~res[w]
        /\ Healthy(pre[w])
        /\ \E i \in 1..Len(scans) :
             /\ UrlAt(i) = rec[arg[w]].url
             /\ rec[scans[i]].scan_type # rec[arg[w]].scan_type

\* ------------------------------------------------------ the record alone
Lifecycle == {"finish", "abort", "progress_bar"}
SameId(a, b) == a.id = b.id
\* the other record of a call on two records
Other(w) == out[w][1]

\* C12: eq answers whether the two ids are the same, whatever the other
\* fields hold; a record just created equals no other record; after one id
\* is copied onto the other the two are equal; finish, abort and
\* progress_bar leave every pair's equality as it was.
C12_EqualityIsById ==
    \A w \in Workers :
        /\ (op[w] = "eq" /\ pc[w] = "done") =>
               (res[w] <=> SameId(rec[arg[w]], rec[Other(w)]))
        /\ (op[w] = "new" /\ pc[w] = "done") =>
               \A g \in Allocated \ {arg[w]} : ~SameId(rec[arg[w]], rec[g])
        /\ (op[w] = "set_id" /\ pc[w] = "done") =>
               SameId(rec[arg[w]], rec[Other(w)])
        /\ (op[w] \in Lifecycle /\ pc[w] = "done") =>
               \A h, g \in Allocated :
                   SameId(rec[h], rec[g]) <=> SameId(pre[w].rec[h], pre[w].rec[g])

\* C12's case: two records with different urls compare equal after the id of
\* one was copied onto the other
C12_Witness ==
    \E w \in Workers :
        /\ op[w] = "eq" /\ pc[w] = "done" /\ res[w]
        /\ arg[w] # Other(w)
        /\ rec[arg[w]].url # rec[Other(w)].url

\* the record's progress bar in a heap of bars: none, or finished
BarStopped(r, heap) == r.progress_bar = NoBar \/ heap[r.progress_bar] = "finished"
\* worker w makes the step that calls `name` on record h
Calls(w, name, h) ==
    pc[w] = "idle" /\ pc'[w] = "done" /\ op'[w] = name /\ arg'[w] = h

\* C13: a scan is created not complete; finish leaves it complete with its
\* progress bar, if it has one, finished; finish on a record in that state
\* changes nothing; no step of any operation turns complete from true to
\* false, and only a finish turns it from false to true.
C13_CompleteOnceAndForAll ==
    /\ [](\A w \in Workers :
            /\ (op[w] = "add_scan" /\ pc[w] = "done") => ~rec[arg[w]].complete
            /\ (op[w] = "finish" /\ pc[w] = "done") =>
                  /\ rec[arg[w]].complete
                  /\ BarStopped(rec[arg[w]], bars)
                  /\ (pre[w].rec[arg[w]].complete
                        /\ BarStopped(pre[w].rec[arg[w]], pre[w].bars)) =>
                       (rec = pre[w].rec /\ bars = pre[w].bars))
    /\ [][\A h \in Handles :
            /\ rec[h].complete => rec'[h].complete
            /\ (~rec[h].complete /\ rec'[h].complete) =>
                  \E w \in Workers : Calls(w, "finish", h)]_vars

\* C13's case: a stored scan that was complete, its bar finished, has been
\* finished again
C13_Witness ==
    \E w \in Workers :
        /\ op[w] = "finish" /\ pc[w] = "done"
        /\ pre[w].rec[arg[w]].complete
        /\ rec[arg[w]].progress_bar # NoBar
        /\ \E i \in 1..Len(scans) : scans[i] = arg[w]

\* every bar of the old heap is in the new heap, in the same state, except b
SameBarsBut(before, after, b) ==
    /\ Len(after) >= Len(before)
    /\ \A i \in 1..Len(before) : i # b => after[i] = before[i]

\* C14: abort leaves the record's progress bar finished and every field of
\* every record as it was (id, url, scan_type, complete, the task, the
\* reference to the bar); no other bar changes and none is created.
C14_AbortOnlyStopsTheBar ==
    \A w \in Workers :
        (op[w] = "abort" /\ pc[w] = "done") =>
            /\ rec = pre[w].rec
            /\ BarStopped(rec[arg[w]], bars)
            /\ Len(bars) = Len(pre[w].bars)
            /\ SameBarsBut(pre[w].bars, bars, rec[arg[w]].progress_bar)

\* C14's case: a scan that is not complete, with a running task and a bar
\* that was not finished, has been aborted
C14_Witness ==
    \E w \in Workers :
        /\ op[w] = "abort" /\ pc[w] = "done"
        /\ rec[arg[w]].progress_bar # NoBar
        /\ pre[w].bars[rec[arg[w]].progress_bar] = "active"
        /\ rec[arg[w]].task = "running"
        /\ ~rec[arg[w]].complete

\* C15: a record gets a progress bar only at its creation or by a call of
\* progress_bar, and never loses or exchanges the one it has.  progress_bar
\* on a record without a bar creates one bar, not finished, stores it and
\* returns it; on a record with a bar it returns that bar and creates none.
C15_ProgressBarIsLazy ==
    /\ [](\A w \in Workers :
            (op[w] = "progress_bar" /\ pc[w] = "done") =>
                IF pre[w].rec[arg[w]].progress_bar = NoBar
                  THEN /\ Len(bars) = Len(pre[w].bars) + 1
                       /\ out[w] = <<Len(bars)>>
                       /\ rec[arg[w]].progress_bar = Len(bars)
                       /\ bars[Len(bars)] = "active"
                       /\ SameBarsBut(pre[w].bars, bars, NoBar)
                  ELSE /\ out[w] = <<pre[w].rec[arg[w]].progress_bar>>
                       /\ rec = pre[w].rec
                       /\ bars = pre[w].bars)
    /\ [][\A h \in Handles :
            /\ (rec[h].alloc /\ rec[h].progress_bar # NoBar) =>
                  rec'[h].progress_bar = rec[h].progress_bar
            /\ (rec[h].alloc /\ rec[h].progress_bar = NoBar
                             /\ rec'[h].progress_bar # NoBar) =>
                  \E w \in Workers : Calls(w, "progress_bar", h)]_vars

\* C15's case: progress_bar has been called again on a record that was
\* created without a bar, and has returned the bar of the first call
C15_Witness ==
    \E w \in Workers :
        /\ op[w] = "progress_bar" /\ pc[w] = "done"
        /\ pre[w].rec[arg[w]].progress_bar # NoBar
        /\ \A g \in Allocated \ {arg[w]} : rec[g].progress_bar = NoBar
        /\ Cardinality(Allocated) = NumHandles
        /\ Len(bars) = 1
        /\ arg[w] = NumHandles

\* the positions of the Directory scans in the sequence s, in order
DirectoryPositions(s, recs) ==
    SelectSeq([i \in 1..Len(s) |-> i],
              LAMBDA i : recs[s[i]].scan_type = "Directory")

\* the lines a display of the sequence s prints: one per Directory scan
DirectoryLines(s, recs) ==
    [k \in 1..Len(DirectoryPositions(s, recs)) |->
        LET i == DirectoryPositions(s, recs)[k]
        IN  [index |-> i - 1,
             status |-> IF recs[s[i]].complete THEN "complete"
                                               ELSE "incomplete",
             url |-> recs[s[i]].url]]

\* C16: with healthy locks display_scans prints exactly one line for each
\* stored Directory scan, in the order of the collection, with "complete"
\* exactly for the complete scans, and no line for a File scan; the
\* collection, the records and the bars are as they were at the call.
C16_DisplayListsDirectories ==
    \A w \in Workers :
        (op[w] = "display" /\ pc[w] = "done" /\ Healthy(pre[w])) =>
            /\ out[w] = DirectoryLines(pre[w].scans, pre[w].rec)
            /\ scans = pre[w].scans
            /\ rec = pre[w].rec
            /\ bars = pre[w].bars

\* C16's case: a display of a File scan followed by a complete Directory scan
\* has printed the one line of the Directory scan
C16_Witness ==
    \E w \in Workers :
        /\ op[w] = "display" /\ pc[w] = "done"
        /\ Len(scans) = 2
        /\ rec[scans[1]].scan_type = "File"
        /\ rec[scans[2]].scan_type = "Directory"
        /\ rec[scans[2]].complete
        /\ Len(out[w]) = 1
        /\ out[w][1].status = "complete"

\* seq a is the beginning of seq b
IsPrefix(a, b) ==
    /\ Len(a) <= Len(b)
    /\ \A i \in 1..Len(a) : b[i] = a[i]

RespCall(w, name) == op[w] = name /\ pc[w] = "done" /\ ~pre[w].rsp

\* C17: with a healthy lock an insert appends its response right after the
\* responses stored at the call, whatever their urls, and contains answers
\* whether a response stored at the call has the url; every step of every
\* caller and of the ctrl+c handler keeps the stored responses, in place, and
\* adds at most the one response of an insert that starts; the responses of
\* concurrent inserts are all stored.
C17_ResponsesAppendOnly ==
    /\ [](\A w \in Workers :
            /\ RespCall(w, "resp_insert") =>
                  /\ IsPrefix(Append(pre[w].resp, out[w][1]), responses)
            /\ RespCall(w, "resp_contains") =>
                  (res[w] <=> \E i \in 1..Len(pre[w].resp) :
                                  pre[w].resp[i].url = out[w][1].url))
    /\ [](Len(responses) >=
             Cardinality({w \in Workers : RespCall(w, "resp_insert")}))
    /\ [][/\ IsPrefix(responses, responses')
          /\ Len(responses') <= Len(responses) + 1
          /\ Len(responses') = Len(responses) + 1 =>
                \E w \in Workers :
                    /\ pc[w] = "idle" /\ pc'[w] = "done"
                    /\ op'[w] = "resp_insert"
                    /\ responses' = Append(responses, out'[w][1])]_vars

\* C17's case: two inserts of responses with the same url have run at once and
\* both responses are stored
C17_Witness ==
    /\ \A w \in Workers : RespCall(w, "resp_insert")
    /\ Len(responses) = NumWorkers
    /\ \A i \in 1..Len(responses) : responses[i].url = responses[1].url

\* a step of resume_scan: its entry, or a move of its position
RestoreActs == rpc' # rpc \/ ridx' # ridx

\* C18: no step of resume_scan, on any file, adds, removes or changes a scan
\* of the registry, a record or a progress bar, whatever the file's scans
\* section holds; it replays responses only.
C18_RestoreLeavesScansAlone ==
    [][RestoreActs =>
          /\ scans' = scans
          /\ rec' = rec
          /\ bars' = bars
          /\ scansPoisoned' = scansPoisoned
          /\ recPoisoned' = recPoisoned]_vars

\* C18's case: resume_scan has come to its end in a process whose registry
\* holds a scan, on a file whose scans section holds a scan of another url,
\* and has replayed a response
C18_Witness ==
    /\ rpc = "r_done"
    /\ Len(scans) = 1
    /\ HasField(file, "scans") /\ file.fields.scans.kind = "array"
    /\ Len(file.fields.scans.items) = 1
    /\ HasField(file.fields.scans.items[1], "url")
    /\ file.fields.scans.items[1].fields.url.lit # UrlAt(1)
    /\ Len(responses) = 1

\* the call of w holds the collection lock, or is at a lock() of it
AtCollectionLock(w) ==
    \/ scansLock = w
    \/ pc[w] = "ct_lock"
    \/ pc[w] = "ins_if" /\ sentry[w]

\* C19: a call of insert that holds the lock of a record neither holds the
\* collection lock nor is at a lock() of it.
C19_NoCollectionLockUnderRecordLock ==
    \A w \in Workers :
        (InsertCall(w) /\ HeldBy(w) # {}) => ~AtCollectionLock(w)

\* the caller is inside pause: it has entered and has not returned
InPause(w) == PauseCall(w) /\ pc[w] # "done"

\* C20: whenever no caller is inside pause the barrier is 0, and a caller that
\* is about to decrement the barrier is one that incremented it in this call.
C20_BarrierRestored ==
    /\ (\A w \in Workers : ~InPause(w)) => barrier = 0
    /\ \A w \in Workers : pc[w] = "p_bsub" => w \in leaders

\* every caller has returned from pause and the barrier is left above zero
BarrierLeftAbove == (\A w \in Workers : Returned(w)) /\ barrier > 0
\* every caller has returned from pause and the barrier has wrapped below zero
BarrierLeftBelow == (\A w \in Workers : Returned(w)) /\ barrier < 0
\* a caller that took no leader branch is about to decrement the barrier
FollowerDecrements == \E w \in Workers : pc[w] = "p_bsub" /\ w \notin leaders

\* ------------------------------------------------------ point-in-time view
\* the handler has serialized both registries
Serialized == hpc \in {"h_write", "h_exit", "exited"} /\ captured.opened

\* C21: the scans and the responses the handler has serialized are, together,
\* what the two registries held at one moment between ctrl+c and the end of
\* the serialization.
C21_SnapshotIsOneInstant ==
    Serialized =>
        \E v \in seen.views :
            /\ hdoc.scans = v.scans
            /\ hdoc.responses = v.responses

\* the two sections are what the registries held at the moment of ctrl+c
SnapshotOfQuietRegistries ==
    /\ Serialized
    /\ hdoc.scans # <<>> /\ hdoc.responses # <<>>
    /\ Cardinality(seen.views) = 1

\* ------------------------------------------------- pause blocks nobody
\* C22: a caller in pause's poll loop holds neither the collection lock nor
\* a record lock, and while a caller is in the loop no registry call of
\* another worker is stuck: none waits forever for a lock, none has panicked.
C22_PauseBlocksNobody ==
    /\ \A w \in Workers : InLoop(w) => (scansLock # w /\ HeldBy(w) = {})
    /\ (\E w \in Workers : InLoop(w)) =>
          \A v \in Workers :
              ~PauseCall(v) => (~WaitsForever(v, NumWorkers + 1) /\ pc[v] # "panicked")

\* the part of C22 about the locks of the callers in the loop
PausedHoldNoLock ==
    \A w \in Workers : InLoop(w) => (scansLock # w /\ HeldBy(w) = {})
\* a registry call issued during a pause has returned while the caller of
\* pause, which displayed the scans, is still in the loop
ReturnedDuringPause ==
    /\ \E w \in Workers : InLoop(w) /\ waited[w] /\ w \in leaders
    /\ \E v \in Workers : pc[v] = "done" /\ op[v] = "insert" /\ ~res[v]

\* ------------------------------------------------ add_scan's returned handle
\* the handle is an element of the sequence
StoredIn(seq, h) == \E i \in 1..Len(seq) : seq[i] = h

\* C23: calls that take turns: the handle add_scan returns is the record the
\* call created, not one that was stored before; it is the stored entry when
\* add_scan returns true; when add_scan returns false it is not in the
\* registry and is unequal to every stored entry of its url, and a finish or
\* an abort of a record that is not in the registry leaves the complete flag
\* of every registered entry as it was.
C23_ReturnedHandleIsTheNewRecord ==
    \A w \in Workers :
        /\ (op[w] = "add_scan" /\ pc[w] = "done") =>
              /\ ~StoredIn(pre[w].scans, arg[w])
              /\ res[w] => scans[Len(scans)] = arg[w]
              /\ ~res[w] =>
                    /\ ~StoredIn(scans, arg[w])
                    /\ \A i \in 1..Len(scans) :
                          UrlAt(i) = rec[arg[w]].url =>
                              ~ScanEq(rec[scans[i]], rec[arg[w]])
        /\ (op[w] \in {"finish", "abort"} /\ pc[w] = "done"
                                          /\ ~StoredIn(scans, arg[w])) =>
              \A i \in 1..Len(scans) :
                  rec[scans[i]].complete = pre[w].rec[scans[i]].complete

\* C23's case: the handle of a rejected add_scan has been finished, and the
\* registered entry of its url is not complete
C23_Witness ==
    \E w \in Workers :
        /\ op[w] = "finish" /\ pc[w] = "done"
        /\ ~StoredIn(scans, arg[w])
        /\ rec[arg[w]].complete
        /\ \E i \in 1..Len(scans) :
              UrlAt(i) = rec[arg[w]].url /\ ~rec[scans[i]].complete

====
